---- MODULE Spec2Model ----
(***************************************************************************)
(* Model of cloak (internal/cloak/cloak.go): directory archiving and       *)
(* extraction, the AES-GCM / Argon2id pipeline, the .cloak container       *)
(* format, and the Encrypt / Decrypt orchestration with its secret         *)
(* buffers.                                                                *)
(*                                                                         *)
(* Strings are sequences of one-character strings; bytes are naturals.     *)
(* A filesystem is a function from canonical absolute paths (sequences of  *)
(* path segments) to nodes.                                                *)
(***************************************************************************)
EXTENDS Integers, Sequences, FiniteSets, TLC

\* ------------------------------------------------------------------ strings

Sep == "/"

Str1(c) == <<c>>

DotStr == <<".">>

DotDotStr == <<".", ".">>

HasPrefix(s, prefix) ==
    /\ Len(s) >= Len(prefix)
    /\ SubSeq(s, 1, Len(prefix)) = prefix

HasSuffix(s, suffix) ==
    /\ Len(s) >= Len(suffix)
    /\ SubSeq(s, Len(s) - Len(suffix) + 1, Len(s)) = suffix

TrimSuffix(s, suffix) ==
    IF HasSuffix(s, suffix) THEN SubSeq(s, 1, Len(s) - Len(suffix)) ELSE s

\* Index of the last separator of s, 0 when it has none.
LastSep(s) ==
    IF \E i \in 1..Len(s) : s[i] = Sep
    THEN CHOOSE i \in 1..Len(s) : s[i] = Sep /\ \A j \in (i+1)..Len(s) : s[j] # Sep
    ELSE 0

\* Index of the first separator of s, 0 when it has none.
FirstSep(s) ==
    IF \E i \in 1..Len(s) : s[i] = Sep
    THEN CHOOSE i \in 1..Len(s) : s[i] = Sep /\ \A j \in 1..(i-1) : s[j] # Sep
    ELSE 0

\* strings.Split(s, "/"): the elements between separators (empty ones kept).
RECURSIVE Split(_)
Split(s) ==
    IF FirstSep(s) = 0 THEN <<s>>
    ELSE <<SubSeq(s, 1, FirstSep(s) - 1)>> \o Split(SubSeq(s, FirstSep(s) + 1, Len(s)))

\* strings.Join(segs, "/").
RECURSIVE JoinSegs(_)
JoinSegs(segs) ==
    IF segs = <<>> THEN <<>>
    ELSE IF Len(segs) = 1 THEN segs[1]
    ELSE segs[1] \o <<Sep>> \o JoinSegs(Tail(segs))

\* The element loop of filepath.Clean: "." and empty elements are dropped,
\* ".." removes the element before it, is dropped at the root, and is kept
\* at the front of a relative path.
RECURSIVE CleanSegs(_, _, _)
CleanSegs(segs, rooted, out) ==
    IF segs = <<>> THEN out
    ELSE LET e == Head(segs)
             r == Tail(segs)
         IN  IF e = <<>> \/ e = DotStr THEN CleanSegs(r, rooted, out)
             ELSE IF e = DotDotStr
                  THEN IF out # <<>> /\ out[Len(out)] # DotDotStr
                       THEN CleanSegs(r, rooted, SubSeq(out, 1, Len(out) - 1))
                       ELSE IF rooted THEN CleanSegs(r, rooted, out)
                       ELSE CleanSegs(r, rooted, Append(out, DotDotStr))
             ELSE CleanSegs(r, rooted, Append(out, e))

IsAbs(path) == HasPrefix(path, <<Sep>>)

Clean(path) ==
    IF path = <<>> THEN DotStr
    ELSE LET out == CleanSegs(Split(path), IsAbs(path), <<>>)
         IN  IF IsAbs(path) THEN <<Sep>> \o JoinSegs(out)
             ELSE IF out = <<>> THEN DotStr
             ELSE JoinSegs(out)

\* filepath.Join of two elements.
Join(a, b) ==
    IF a # <<>> THEN Clean(a \o <<Sep>> \o b)
    ELSE IF b # <<>> THEN Clean(b)
    ELSE <<>>

Dir(path) == Clean(SubSeq(path, 1, LastSep(path)))

RECURSIVE StripTrailingSeps(_)
StripTrailingSeps(path) ==
    IF Len(path) > 0 /\ path[Len(path)] = Sep
    THEN StripTrailingSeps(SubSeq(path, 1, Len(path) - 1))
    ELSE path

Base(path) ==
    IF path = <<>> THEN DotStr
    ELSE LET p == StripTrailingSeps(path)
             b == SubSeq(p, LastSep(p) + 1, Len(p))
         IN  IF b = <<>> THEN <<Sep>> ELSE b

\* Length of the common prefix of two element lists.
RECURSIVE CommonLen(_, _)
CommonLen(a, b) ==
    IF a = <<>> \/ b = <<>> \/ Head(a) # Head(b) THEN 0
    ELSE 1 + CommonLen(Tail(a), Tail(b))

\* The elements of a cleaned path, without its root.
Elems(cleaned) ==
    LET p == IF IsAbs(cleaned) THEN Tail(cleaned) ELSE cleaned
    IN  IF p = <<>> THEN <<>> ELSE Split(p)

\* filepath.Rel: [err, path].
Rel(basepath, targpath) ==
    LET base0 == Clean(basepath)
        targ  == Clean(targpath)
        base  == IF base0 = DotStr THEN <<>> ELSE base0
        bs    == Elems(base)
        ts    == Elems(targ)
        n     == CommonLen(bs, ts)
        brest == SubSeq(bs, n + 1, Len(bs))
        trest == SubSeq(ts, n + 1, Len(ts))
    IN  IF targ = base0 THEN [err |-> FALSE, path |-> DotStr]
        ELSE IF IsAbs(base) # IsAbs(targ) THEN [err |-> TRUE, path |-> <<>>]
        ELSE IF brest # <<>> /\ brest[1] = DotDotStr THEN [err |-> TRUE, path |-> <<>>]
        ELSE IF brest # <<>>
             THEN [err |-> FALSE,
                   path |-> JoinSegs([i \in 1..Len(brest) |-> DotDotStr] \o trest)]
        ELSE [err |-> FALSE, path |-> JoinSegs(trest)]

\* --------------------------------------------------------------- filesystem

Root == <<>>

\* The working directory of the process.
Cwd == << <<"w">> >>

DirNode == [kind |-> "dir", bytes |-> <<>>, target |-> <<>>]

FileNode(b) == [kind |-> "file", bytes |-> b, target |-> <<>>]

LinkNode(t) == [kind |-> "link", bytes |-> <<>>, target |-> t]

Put(f, p, node) == [q \in DOMAIN f \cup {p} |-> IF q = p THEN node ELSE f[q]]

Del(f, p) == [q \in DOMAIN f \ {p} |-> f[q]]

Parent(p) == IF p = <<>> THEN <<>> ELSE SubSeq(p, 1, Len(p) - 1)

IsUnder(dir, p) == Len(p) >= Len(dir) /\ SubSeq(p, 1, Len(dir)) = dir

HasChildren(f, p) == \E q \in DOMAIN f : q # p /\ IsUnder(p, q)

\* The names a path walk visits: empty and "." elements are skipped.
PathElems(path) == SelectSeq(Split(path), LAMBDA e : e # <<>> /\ e # DotStr)

\* Path resolution as the kernel does it: elements are looked up one by one
\* from cur, ".." moves to the parent, a symbolic link is replaced by its
\* target (the last element's only when follow is set).  The result is
\* "ok" with the canonical path of the object, "new" with the canonical
\* path of a missing last element inside an existing directory, or "err".
RECURSIVE Namei(_, _, _, _, _)
Namei(f, cur, segs, follow, fuel) ==
    IF segs = <<>> THEN [st |-> "ok", path |-> cur]
    ELSE IF f[cur].kind # "dir" THEN [st |-> "err", path |-> cur]
    ELSE LET e    == Head(segs)
             rest == Tail(segs)
             p    == Append(cur, e)
         IN  IF e = DotDotStr THEN Namei(f, Parent(cur), rest, follow, fuel)
             ELSE IF p \notin DOMAIN f
                  THEN [st |-> IF rest = <<>> THEN "new" ELSE "err", path |-> p]
             ELSE IF f[p].kind = "link" /\ (rest # <<>> \/ follow)
                  THEN IF fuel = 0 THEN [st |-> "err", path |-> p]
                       ELSE Namei(f, IF IsAbs(f[p].target) THEN Root ELSE cur,
                                  PathElems(f[p].target) \o rest, follow, fuel - 1)
             ELSE Namei(f, p, rest, follow, fuel)

Resolve(f, path, follow) ==
    Namei(f, IF IsAbs(path) THEN Root ELSE Cwd, PathElems(path), follow,
          Cardinality(DOMAIN f))

\* os.Stat: follows symbolic links.
Stat(f, path) == Resolve(f, path, TRUE)

\* os.Lstat: does not follow a final symbolic link.
Lstat(f, path) == Resolve(f, path, FALSE)

StatIsDir(f, path) == Stat(f, path).st = "ok" /\ f[Stat(f, path).path].kind = "dir"

NoChange(f) == [err |-> FALSE, fs |-> f, touched |-> {}]

Failed(f, t) == [err |-> TRUE, fs |-> f, touched |-> t]

\* os.Mkdir: the last element must not exist (a symbolic link counts).
Mkdir(f, path) ==
    LET r == Lstat(f, path)
    IN  IF r.st = "new"
        THEN [err |-> FALSE, fs |-> Put(f, r.path, DirNode), touched |-> {r.path}]
        ELSE Failed(f, {})

\* os.MkdirAll.
RECURSIVE MkdirAll(_, _)
MkdirAll(f, path) ==
    IF Stat(f, path).st = "ok"
    THEN IF f[Stat(f, path).path].kind = "dir" THEN NoChange(f) ELSE Failed(f, {})
    ELSE LET p      == StripTrailingSeps(path)
             parent == SubSeq(p, 1, LastSep(p))
             pr     == IF parent # <<>> THEN MkdirAll(f, parent) ELSE NoChange(f)
         IN  IF pr.err THEN pr
             ELSE LET m == Mkdir(pr.fs, path)
                      l == Lstat(pr.fs, path)
                  IN  IF ~m.err
                      THEN [err |-> FALSE, fs |-> m.fs,
                            touched |-> pr.touched \cup m.touched]
                      ELSE IF l.st = "ok" /\ pr.fs[l.path].kind = "dir"
                           THEN [err |-> FALSE, fs |-> pr.fs, touched |-> pr.touched]
                           ELSE Failed(pr.fs, pr.touched)

\* os.OpenFile(path, O_CREATE|O_WRONLY|O_TRUNC), io.Copy of the content and
\* Close: the path is resolved through symbolic links, the last one too.
WriteFile(f, path, content) ==
    LET r == Stat(f, path)
    IN  IF r.st = "err" THEN Failed(f, {})
        ELSE IF r.st = "ok" /\ f[r.path].kind # "file" THEN Failed(f, {})
        ELSE [err |-> FALSE, fs |-> Put(f, r.path, FileNode(content)),
              touched |-> {r.path}]

\* os.Remove: unlinks a file or a symbolic link, removes an empty directory.
Remove(f, path) ==
    LET r == Lstat(f, path)
    IN  IF r.st # "ok" \/ r.path = Root THEN Failed(f, {})
        ELSE IF f[r.path].kind = "dir" /\ HasChildren(f, r.path) THEN Failed(f, {})
        ELSE [err |-> FALSE, fs |-> Del(f, r.path), touched |-> {r.path}]

\* os.Symlink(target, path).
Symlink(f, target, path) ==
    LET r == Lstat(f, path)
    IN  IF r.st = "new"
        THEN [err |-> FALSE, fs |-> Put(f, r.path, LinkNode(target)),
              touched |-> {r.path}]
        ELSE Failed(f, {})

\* ------------------------------------------------------------ archive format

\* Character codes of the alphabet the model's names are written in.
OrdTable ==
    [c \in {"/", ".", "a", "b", "c", "d", "k", "l", "o", "r", "v", "w"} |->
        CASE c = "/" -> 47 [] c = "." -> 46 [] c = "a" -> 97 [] c = "b" -> 98
          [] c = "c" -> 99 [] c = "d" -> 100 [] c = "k" -> 107 [] c = "l" -> 108
          [] c = "o" -> 111 [] c = "r" -> 114 [] c = "v" -> 118 [] c = "w" -> 119]

Ord(c) == OrdTable[c]

Chr(n) == CHOOSE c \in DOMAIN OrdTable : OrdTable[c] = n

ToBytes(str) == [i \in 1..Len(str) |-> Ord(str[i])]

FromBytes(b) == [i \in 1..Len(b) |-> Chr(b[i])]

\* tar.TypeReg, tar.TypeSymlink, tar.TypeDir.
TypeCode(t) == CASE t = "reg" -> 48 [] t = "symlink" -> 50 [] t = "dir" -> 53

TypeOf(n) ==
    CASE n = 48 -> "reg" [] n = 50 -> "symlink" [] n = 53 -> "dir" [] OTHER -> "other"

Header(t, name, linkname, content) ==
    [typeflag |-> t, name |-> name, linkname |-> linkname, content |-> content]

\* tarWriter.WriteHeader followed by the entry's content: the type, then the
\* name, the link name and the content, each behind its length.
TarEntry(h) ==
    <<TypeCode(h.typeflag), Len(h.name)>> \o ToBytes(h.name)
        \o <<Len(h.linkname)>> \o ToBytes(h.linkname)
        \o <<Len(h.content)>> \o h.content

RECURSIVE TarStream(_)
TarStream(hs) == IF hs = <<>> THEN <<>> ELSE TarEntry(Head(hs)) \o TarStream(Tail(hs))

\* The two identification bytes a gzip stream starts with.
GzipMagic == <<31, 139>>

GzipWrite(stream) == GzipMagic \o stream

\* gzip.NewReader: fails unless the stream starts with the gzip header.
GzipOk(data) == HasPrefix(data, GzipMagic)

\* tarReader.Next at offset pos of the stream: [eof, err, header, next].
TarNext(data, pos) ==
    IF pos > Len(data)
    THEN [eof |-> TRUE, err |-> FALSE, header |-> Header("other", <<>>, <<>>, <<>>),
          next |-> pos]
    ELSE LET bad   == [eof |-> FALSE, err |-> TRUE,
                       header |-> Header("other", <<>>, <<>>, <<>>), next |-> pos]
             n     == data[pos + 1]
             lAt   == pos + 2 + n
             l     == data[lAt]
             cAt   == lAt + 1 + l
             c     == data[cAt]
         IN  IF pos + 1 > Len(data) THEN bad
             ELSE IF lAt > Len(data) THEN bad
             ELSE IF cAt > Len(data) THEN bad
             ELSE IF cAt + c > Len(data) THEN bad
             ELSE [eof |-> FALSE, err |-> FALSE,
                   header |-> Header(TypeOf(data[pos]),
                                     FromBytes(SubSeq(data, pos + 2, pos + 1 + n)),
                                     FromBytes(SubSeq(data, lAt + 1, lAt + l)),
                                     SubSeq(data, cAt + 1, cAt + c)),
                   next |-> cAt + c + 1]

\* ---------------------------------------------------------------- extraction

\* InvalidPath without its test for an absolute path.
InvalidPathRelativeOnly(cleanName) == HasPrefix(cleanName, DotDotStr)

\* The path check of ExtractArchive on the cleaned entry name.
InvalidPath(cleanName) == HasPrefix(cleanName, DotDotStr) \/ IsAbs(cleanName)

\* The switch of ExtractArchive on an entry that passed the path check.
ExtractEntry(f, header, destDir) ==
    LET cleanName  == Clean(header.name)
        targetPath == Join(destDir, cleanName)
        m          == MkdirAll(f, Dir(targetPath))
        w          == WriteFile(m.fs, targetPath, header.content)
        rm         == Remove(m.fs, targetPath)
        s          == Symlink(rm.fs, header.linkname, targetPath)
    IN  CASE header.typeflag = "dir" -> MkdirAll(f, targetPath)
          [] header.typeflag = "reg" ->
                IF m.err THEN m
                ELSE [err |-> w.err, fs |-> w.fs, touched |-> m.touched \cup w.touched]
          [] header.typeflag = "symlink" ->
                IF m.err THEN m
                ELSE [err |-> s.err, fs |-> s.fs,
                      touched |-> m.touched \cup rm.touched \cup s.touched]
          [] OTHER -> NoChange(f)

\* ----------------------------------------------------------------- archiving

RECURSIVE LexLess(_, _)
LexLess(a, b) ==
    IF a = <<>> THEN b # <<>>
    ELSE IF b = <<>> THEN FALSE
    ELSE IF Ord(a[1]) # Ord(b[1]) THEN Ord(a[1]) < Ord(b[1])
    ELSE LexLess(Tail(a), Tail(b))

RECURSIVE SortNames(_)
SortNames(S) ==
    IF S = {} THEN <<>>
    ELSE LET m == CHOOSE x \in S : \A y \in S \ {x} : LexLess(x, y)
         IN  <<m>> \o SortNames(S \ {m})

\* The entry names of directory p, in the order readDirNames returns them.
ReadDirNames(f, p) ==
    SortNames({q[Len(q)] : q \in {x \in DOMAIN f : Len(x) = Len(p) + 1 /\ IsUnder(p, x)}})

\* filepath.Walk below an existing root: the visited (path, node) pairs in
\* order; a directory is visited before its entries, symbolic links are not
\* followed.
RECURSIVE Walk(_, _)
RECURSIVE WalkNames(_, _, _)
Walk(f, path) ==
    LET p == Lstat(f, path).path
    IN  IF f[p].kind # "dir" THEN << [path |-> path, node |-> f[p]] >>
        ELSE << [path |-> path, node |-> f[p]] >> \o WalkNames(f, path, ReadDirNames(f, p))

WalkNames(f, path, names) ==
    IF names = <<>> THEN <<>>
    ELSE Walk(f, Join(path, Head(names))) \o WalkNames(f, path, Tail(names))

\* The header ArchiveDirectory writes for a visited path.
WalkHeader(dirPath, v) ==
    Header(CASE v.node.kind = "dir" -> "dir"
             [] v.node.kind = "file" -> "reg"
             [] v.node.kind = "link" -> "symlink",
           Rel(Dir(dirPath), v.path).path,
           v.node.target,
           v.node.bytes)

\* ArchiveDirectory: [err, data].
ArchiveDirectory(f, dirPath) ==
    IF Lstat(f, dirPath).st # "ok" THEN [err |-> TRUE, data |-> <<>>]
    ELSE LET vs == Walk(f, dirPath)
         IN  IF \E i \in 1..Len(vs) : Rel(Dir(dirPath), vs[i].path).err
             THEN [err |-> TRUE, data |-> <<>>]
             ELSE [err |-> FALSE,
                   data |-> GzipWrite(TarStream([i \in 1..Len(vs) |->
                                                    WalkHeader(dirPath, vs[i])]))]

\* ------------------------------------------------------------- cryptography

\* "CLOAK01".
MagicBytes == <<67, 76, 79, 65, 75, 48, 49>>

SaltSize == 32

NonceSize == 12

KeySize == 32

\* Width of the length field of the container.
SizeLen == 8

RECURSIVE Sum(_)
Sum(b) == IF b = <<>> THEN 0 ELSE Head(b) + Sum(Tail(b))

RECURSIVE WeightedSum(_, _)
WeightedSum(b, i) == IF b = <<>> THEN 0 ELSE i * Head(b) + WeightedSum(Tail(b), i + 1)

Zeroed(b) == [i \in 1..Len(b) |-> 0]

AllZero(b) == \A i \in 1..Len(b) : b[i] = 0

\* DeriveKey that leaves the salt out of the derivation.
DeriveKeyWithoutSalt(password, salt) ==
    [i \in 1..KeySize |-> (WeightedSum(password, 1) + i) % 256]

\* argon2.IDKey, as a deterministic mixing function of the password and the
\* salt that yields KeySize bytes and has no collisions over the passwords
\* and salts of the model.
DeriveKey(password, salt) ==
    [i \in 1..KeySize |->
        (WeightedSum(password, 1) + salt[((i - 1) % Len(salt)) + 1] + i) % 256]

\* Key stream byte i of the cipher under a key and a nonce.
KeyStream(key, nonce, i) ==
    (key[((i - 1) % Len(key)) + 1] + nonce[((i - 1) % Len(nonce)) + 1] + i) % 256

\* The authentication tag of a ciphertext body: one element that depends on
\* the key, the nonce and every byte of the body.
AuthTag(key, nonce, body) ==
    Sum(key) + Sum(nonce) + WeightedSum(body, 1) + Len(body)

\* gcm.Seal: the masked plaintext followed by the tag.
Seal(key, nonce, plaintext) ==
    LET body == [i \in 1..Len(plaintext) |->
                    (plaintext[i] + KeyStream(key, nonce, i)) % 256]
    IN  Append(body, AuthTag(key, nonce, body))

\* gcm.Open: [err, plaintext]; fails unless the tag matches.
Open(key, nonce, ciphertext) ==
    LET body == SubSeq(ciphertext, 1, Len(ciphertext) - 1)
    IN  IF ciphertext = <<>> THEN [err |-> TRUE, plaintext |-> <<>>]
        ELSE IF ciphertext[Len(ciphertext)] # AuthTag(key, nonce, body)
             THEN [err |-> TRUE, plaintext |-> <<>>]
        ELSE [err |-> FALSE,
              plaintext |-> [i \in 1..Len(body) |->
                                (body[i] + 256 - KeyStream(key, nonce, i)) % 256]]

\* EncryptData: aes.NewCipher and cipher.NewGCM accept a KeySize-byte key.
EncryptData(plaintext, key, nonce) ==
    IF Len(key) # KeySize THEN [err |-> "failed to create AES cipher", ciphertext |-> <<>>]
    ELSE [err |-> "", ciphertext |-> Seal(key, nonce, plaintext)]

\* DecryptData that hands out what it unmasked although gcm.Open failed.
DecryptDataUnchecked(ciphertext, key, nonce) ==
    IF Len(key) # KeySize THEN [err |-> "failed to create AES cipher", plaintext |-> <<>>]
    ELSE [err |-> "",
          plaintext |-> [i \in 1..(Len(ciphertext) - 1) |->
                            (ciphertext[i] + 256 - KeyStream(key, nonce, i)) % 256]]

\* DecryptData: one error for every failure of gcm.Open, and no plaintext.
DecryptData(ciphertext, key, nonce) ==
    IF Len(key) # KeySize THEN [err |-> "failed to create AES cipher", plaintext |-> <<>>]
    ELSE IF Open(key, nonce, ciphertext).err
         THEN [err |-> "decryption failed: invalid password or corrupted file",
               plaintext |-> <<>>]
    ELSE [err |-> "", plaintext |-> Open(key, nonce, ciphertext).plaintext]

\* ----------------------------------------------------------------- container

\* binary.BigEndian.PutUint64 of a length: k bytes, most significant first.
RECURSIVE BigEndian(_, _)
BigEndian(n, k) == IF k = 0 THEN <<>> ELSE Append(BigEndian(n \div 256, k - 1), n % 256)

\* A 64-bit unsigned value, as three limbs of 16, 24 and 24 bits.
U64(n) == <<0, n \div 16777216, n % 16777216>>

\* binary.BigEndian.Uint64 of eight bytes.
Uint64(b) ==
    << b[1] * 256 + b[2],
       (b[3] * 256 + b[4]) * 256 + b[5],
       (b[6] * 256 + b[7]) * 256 + b[8] >>

HeaderSize == Len(MagicBytes) + SaltSize + NonceSize + SizeLen

\* ParseContainer without the comparison of the magic bytes.
ParseContainerNoMagic(data) ==
    LET o1 == Len(MagicBytes)
        o2 == o1 + SaltSize
        o3 == o2 + NonceSize
        o4 == o3 + SizeLen
        none == [salt |-> <<>>, nonce |-> <<>>, ciphertext |-> <<>>]
    IN  IF Len(data) < HeaderSize
        THEN [err |-> "invalid file: too small to be a valid encrypted file"] @@ none
        ELSE IF U64(Len(data) - o4) # Uint64(SubSeq(data, o3 + 1, o4))
        THEN [err |-> "invalid file: size mismatch, file may be corrupted"] @@ none
        ELSE [err |-> "",
              salt |-> SubSeq(data, o1 + 1, o2),
              nonce |-> SubSeq(data, o2 + 1, o3),
              ciphertext |-> SubSeq(data, o4 + 1, Len(data))]

\* ParseContainer without the check of the header size: slicing a file
\* shorter than the header ends the program with a run-time panic.
ParseContainerNoMinSize(data) ==
    LET o1 == Len(MagicBytes)
        o2 == o1 + SaltSize
        o3 == o2 + NonceSize
        o4 == o3 + SizeLen
        none == [salt |-> <<>>, nonce |-> <<>>, ciphertext |-> <<>>]
    IN  IF Len(data) < HeaderSize
        THEN [err |-> "panic: slice bounds out of range"] @@ none
        ELSE IF SubSeq(data, 1, o1) # MagicBytes
        THEN [err |-> "invalid file: not a valid .cloak file"] @@ none
        ELSE IF U64(Len(data) - o4) # Uint64(SubSeq(data, o3 + 1, o4))
        THEN [err |-> "invalid file: size mismatch, file may be corrupted"] @@ none
        ELSE [err |-> "",
              salt |-> SubSeq(data, o1 + 1, o2),
              nonce |-> SubSeq(data, o2 + 1, o3),
              ciphertext |-> SubSeq(data, o4 + 1, Len(data))]

\* The container checks of Decrypt on the bytes of a file, in the order of
\* the code, and the fields it slices out.
ParseContainer(data) ==
    LET o1 == Len(MagicBytes)
        o2 == o1 + SaltSize
        o3 == o2 + NonceSize
        o4 == o3 + SizeLen
        none == [salt |-> <<>>, nonce |-> <<>>, ciphertext |-> <<>>]
    IN  IF Len(data) < HeaderSize
        THEN [err |-> "invalid file: too small to be a valid encrypted file"] @@ none
        ELSE IF SubSeq(data, 1, o1) # MagicBytes
        THEN [err |-> "invalid file: not a valid .cloak file"] @@ none
        ELSE IF U64(Len(data) - o4) # Uint64(SubSeq(data, o3 + 1, o4))
        THEN [err |-> "invalid file: size mismatch, file may be corrupted"] @@ none
        ELSE [err |-> "",
              salt |-> SubSeq(data, o1 + 1, o2),
              nonce |-> SubSeq(data, o2 + 1, o3),
              ciphertext |-> SubSeq(data, o4 + 1, Len(data))]

\* ContainerParts with the nonce written before the salt.
ContainerPartsNonceFirst(salt, nonce, ciphertext) ==
    <<MagicBytes, nonce, salt, BigEndian(Len(ciphertext), SizeLen), ciphertext>>

\* The five writes of Encrypt, in order: magic, salt, nonce, length,
\* ciphertext.
ContainerParts(salt, nonce, ciphertext) ==
    <<MagicBytes, salt, nonce, BigEndian(Len(ciphertext), SizeLen), ciphertext>>

\* -------------------------------------------------------------- SecureBytes

\* Wipe that overwrites the buffer but does not set Data to nil.
WipeKeepsData(h, l, name) ==
    IF name \in l
    THEN [heap |-> [h EXCEPT ![name] = Zeroed(h[name])], live |-> l]
    ELSE [heap |-> h, live |-> l]

\* Wipe that drops the buffer without overwriting it.
WipeNoZero(h, l, name) == [heap |-> h, live |-> l \ {name}]

\* SecureBytes.Wipe on the object called name: when its Data is not nil the
\* bytes of the wrapped buffer are set to zero and Data becomes nil.  h maps
\* each buffer to its bytes, l is the set of objects whose Data is not nil.
Wipe(h, l, name) ==
    IF name \in l
    THEN [heap |-> [h EXCEPT ![name] = Zeroed(h[name])], live |-> l \ {name}]
    ELSE [heap |-> h, live |-> l]

\* The deferred Wipe calls of a returning function, last registered first.
RECURSIVE RunDefers(_, _, _)
RunDefers(h, l, ds) ==
    IF ds = <<>> THEN [heap |-> h, live |-> l]
    ELSE LET w == Wipe(h, l, ds[Len(ds)])
         IN  RunDefers(w.heap, w.live, SubSeq(ds, 1, Len(ds) - 1))

\* What the terminal delivers to one ReadPasswordSecure call.
TerminalInputs ==
    { [tty |-> FALSE, ok |-> TRUE, line |-> <<>>],
      [tty |-> TRUE, ok |-> FALSE, line |-> <<>>],
      [tty |-> TRUE, ok |-> TRUE, line |-> <<>>],
      [tty |-> TRUE, ok |-> TRUE, line |-> <<1>>],
      [tty |-> TRUE, ok |-> TRUE, line |-> <<2>>] }

\* ReadPasswordSecure: [err, data].
ReadPasswordSecure(in) ==
    IF ~in.tty
    THEN [err |-> "password input requires a terminal (stdin must be a TTY)",
          data |-> <<>>]
    ELSE IF ~in.ok THEN [err |-> "failed to read password", data |-> <<>>]
    ELSE IF Len(in.line) = 0 THEN [err |-> "password cannot be empty", data |-> <<>>]
    ELSE [err |-> "", data |-> in.line]

\* subtle.ConstantTimeCompare.
ConstantTimeCompare(x, y) == IF x = y THEN 1 ELSE 0

\* The byte values the random source delivers in the model.
RandomFills == {10, 20}

\* GenerateRandomBytes: the slices of size bytes it may return.  rand.Read
\* does not return an error (it ends the program instead), so the error
\* return of GenerateRandomBytes is never taken.
GenerateRandomBytes(size) == {[i \in 1..size |-> v] : v \in RandomFills}

\* filepath.Abs.
Abs(path) == IF IsAbs(path) THEN Clean(path) ELSE Join(<<Sep>> \o JoinSegs(Cwd), path)

CloakSuffix == <<".", "c", "l", "o", "a", "k">>

\* The output path Encrypt derives from its argument.
OutputPath(folderPath) == TrimSuffix(Abs(folderPath), <<Sep>>) \o CloakSuffix

\* --------------------------------------------------------------------- state

VARIABLES
    fs,          \* the filesystem
    op,          \* the call that is running, or that returned last
    pc,          \* its control point
    err,         \* the error the call returned ("" for nil)
    arg,         \* the path argument of the call
    archive,     \* the archive blob (a byte slice)
    pos,         \* offset of the tar reader in the blob
    destDir,     \* destination directory of ExtractArchive
    heap,        \* the buffers behind password, confirmPassword and key
    live,        \* the SecureBytes objects whose Data is not nil
    defers,      \* the deferred Wipe calls of the running function
    salt,
    nonce,
    ciphertext,
    outputPath,  \* output path of Encrypt
    part,        \* index of the next container part Encrypt writes
    touched,     \* history: canonical paths ExtractArchive created, wrote, removed
    nread,       \* history: number of tar entries ExtractArchive took up
    fs0,         \* history: the filesystem when the call started
    typed,       \* history: the lines the terminal delivered to the call
    prov         \* history: how each container file came to its content

vars ==
    <<fs, op, pc, err, arg, archive, pos, destDir, heap, live, defers, salt, nonce,
      ciphertext, outputPath, part, touched, nread, fs0, typed, prov>>

secrets == <<heap, live, defers>>

sealing == <<salt, nonce, ciphertext, outputPath, part>>

history == <<fs0, typed, prov>>

extraction == <<pos, destDir, touched, nread>>

\* The canonical path of the object a path names, <<>> when there is none.
Canon(f, path) == IF Stat(f, path).st = "ok" THEN Stat(f, path).path ELSE Root

NoProv == [kind |-> "none", pw |-> <<>>]

ProvOf(f, path) ==
    IF Canon(f, path) \in DOMAIN prov THEN prov[Canon(f, path)] ELSE NoProv

\* The state a call starts from: no buffers, no locals.
FreshCall(name, path) ==
    /\ op' = name
    /\ arg' = path
    /\ err' = ""
    /\ archive' = <<>>
    /\ pos' = 0
    /\ destDir' = <<>>
    /\ heap' = <<>>
    /\ live' = {}
    /\ defers' = <<>>
    /\ salt' = <<>>
    /\ nonce' = <<>>
    /\ ciphertext' = <<>>
    /\ outputPath' = <<>>
    /\ part' = 0
    /\ touched' = {}
    /\ nread' = 0
    /\ fs0' = fs
    /\ typed' = <<>>

\* A return statement: the error is set and the function's defers are due.
ReturnWith(e) ==
    /\ err' = e
    /\ pc' = "ret"

\* ------------------------------------------------- ExtractArchive, stepwise

\* gzip.NewReader and tar.NewReader at the head of ExtractArchive.
ExtractOpen ==
    /\ pc = "extract_open"
    /\ IF GzipOk(archive)
       THEN /\ pc' = "extract_loop"
            /\ pos' = Len(GzipMagic) + 1
            /\ err' = err
       ELSE /\ pc' = "extract_ret"
            /\ err' = "failed to create gzip reader"
            /\ pos' = pos
    /\ UNCHANGED <<fs, op, arg, archive, destDir, touched, nread>>
    /\ UNCHANGED <<secrets, sealing, history>>

\* One pass of the loop of ExtractArchive on an entry: the path check, then
\* the switch on the entry's type.
ExtractLoop ==
    /\ pc = "extract_loop"
    /\ LET nx == TarNext(archive, pos)
           r  == ExtractEntry(fs, nx.header, destDir)
       IN  /\ ~nx.eof
           /\ IF nx.err
              THEN /\ err' = "failed to read tar entry"
                   /\ pc' = "extract_ret"
                   /\ UNCHANGED <<fs, pos, touched, nread>>
              ELSE IF InvalidPath(Clean(nx.header.name))
              THEN /\ err' = "invalid path in archive"
                   /\ pc' = "extract_ret"
                   /\ nread' = nread + 1
                   /\ UNCHANGED <<fs, pos, touched>>
              ELSE /\ fs' = r.fs
                   /\ touched' = touched \cup r.touched
                   /\ nread' = nread + 1
                   /\ IF r.err
                      THEN /\ err' = "extraction failed"
                           /\ pc' = "extract_ret"
                           /\ pos' = pos
                      ELSE /\ err' = err
                           /\ pc' = "extract_loop"
                           /\ pos' = nx.next
    /\ UNCHANGED <<op, arg, archive, destDir>>
    /\ UNCHANGED <<secrets, sealing, history>>

\* io.EOF from tarReader.Next: the loop ends and ExtractArchive returns nil.
ExtractEOF ==
    /\ pc = "extract_loop"
    /\ TarNext(archive, pos).eof
    /\ pc' = "extract_ret"
    /\ UNCHANGED <<fs, op, err, arg, archive, pos, destDir, touched, nread>>
    /\ UNCHANGED <<secrets, sealing, history>>

\* ExtractArchive returns to a caller that does nothing more with the blob.
ExtractReturn ==
    /\ pc = "extract_ret"
    /\ op \in {"ExtractArchive", "RoundTrip", "ArchiveAndExtract", "ExtractPermuted"}
    /\ pc' = "done"
    /\ UNCHANGED <<fs, op, err, arg, archive, pos, destDir, touched, nread>>
    /\ UNCHANGED <<secrets, sealing, history>>

\* ------------------------------------------- ExtractArchive on any archive

\* Longest archive, in entries.
MaxEntries == 3

DestStr == <<"/", "d">>

DestPath == << <<"d">> >>

OutsideFile == << <<"o">>, <<"v">> >>

\* An empty destination /d beside a directory /o that holds a file.
ExtractFS ==
    (Root :> DirNode) @@ (DestPath :> DirNode) @@ (<< <<"o">> >> :> DirNode)
        @@ (OutsideFile :> FileNode(<<5>>))

\* Archive entries: plain ones, ones whose names leave the destination, and
\* symbolic links with plain, relative-parent and absolute targets.
EntryUniverse ==
    { Header("dir", <<"a">>, <<>>, <<>>),
      Header("reg", <<"a", "/", "b">>, <<>>, <<7>>),
      Header("reg", <<"a">>, <<>>, <<8>>),
      Header("symlink", <<"l">>, <<".", ".">>, <<>>),
      Header("symlink", <<"l">>, <<"/", "o">>, <<>>),
      Header("symlink", <<"a">>, <<"b">>, <<>>),
      Header("reg", <<"l", "/", "v">>, <<>>, <<9>>),
      Header("dir", <<"l", "/", "b">>, <<>>, <<>>),
      Header("symlink", <<"l", "/", "v">>, <<"a">>, <<>>),
      Header("reg", <<".", ".", "/", "a">>, <<>>, <<7>>),
      Header("reg", <<"/", "o", "/", "v">>, <<>>, <<7>>),
      Header("reg", <<"a", "/", ".", ".", "/", ".", ".", "/", "o", "/", "v">>, <<>>, <<7>>),
      Header("reg", <<".", ".", "c">>, <<>>, <<7>>) }

EntrySeqs == UNION {[1..n -> EntryUniverse] : n \in 0..MaxEntries}

\* The variables a call that has not started leaves empty.
NoCall ==
    /\ err = ""
    /\ heap = <<>>
    /\ live = {}
    /\ defers = <<>>
    /\ salt = <<>>
    /\ nonce = <<>>
    /\ ciphertext = <<>>
    /\ outputPath = <<>>
    /\ part = 0
    /\ pos = 0
    /\ touched = {}
    /\ nread = 0
    /\ typed = <<>>
    /\ prov = <<>>

InitExtract ==
    /\ fs = ExtractFS
    /\ fs0 = ExtractFS
    /\ op = "ExtractArchive"
    /\ pc = "extract_open"
    /\ arg = <<>>
    /\ \E hs \in EntrySeqs : archive = GzipWrite(TarStream(hs))
    /\ destDir = DestStr
    /\ NoCall

NextExtract == ExtractOpen \/ ExtractLoop \/ ExtractEOF \/ ExtractReturn

SpecExtract == InitExtract /\ [][NextExtract]_vars

\* ------------------------------------------------------------ source trees

\* A directory tree: the name of its root and the nodes below it, by path
\* relative to the root.
TreeSmall ==
    [root |-> <<"r">>,
     nodes |-> (<<>> :> DirNode) @@ (<< <<"a">> >> :> FileNode(<<7>>))]

TreePlain ==
    [root |-> <<"r">>,
     nodes |-> (<<>> :> DirNode) @@ (<< <<"a">> >> :> FileNode(<<7>>))
               @@ (<< <<"b">> >> :> DirNode)
               @@ (<< <<"b">>, <<"c">> >> :> FileNode(<<8, 9>>))]

TreeLink ==
    [root |-> <<"r">>,
     nodes |-> (<<>> :> DirNode) @@ (<< <<"a">> >> :> FileNode(<<7>>))
               @@ (<< <<"l">> >> :> LinkNode(<<"a">>))]

TreeEmpty == [root |-> <<"r">>, nodes |-> (<<>> :> DirNode)]

TreeDots ==
    [root |-> <<".", ".", "c">>,
     nodes |-> (<<>> :> DirNode) @@ (<< <<"a">> >> :> FileNode(<<7>>))]

\* The nodes of a tree placed in directory at.
Mount(tree, at) ==
    [q \in {at \o <<tree.root>> \o rel : rel \in DOMAIN tree.nodes} |->
        tree.nodes[SubSeq(q, Len(at) + 2, Len(q))]]

\* The nodes at and below p, by path relative to p.
SubTree(f, p) ==
    [rel \in {SubSeq(q, Len(p) + 1, Len(q)) : q \in {x \in DOMAIN f : IsUnder(p, x)}} |->
        f[p \o rel]]

\* ---------------------- archive, encrypt, decrypt, extract (the test cycle)

SourceDir == << <<"s">> >>

RoundTripTrees == {TreeSmall, TreePlain, TreeLink, TreeEmpty, TreeDots}

RoundTripFS(tree) ==
    (Root :> DirNode) @@ (SourceDir :> DirNode) @@ (DestPath :> DirNode)
        @@ Mount(tree, SourceDir)

Passwords == {<<1>>, <<2>>}

InitRoundTrip ==
    /\ \E tree \in RoundTripTrees :
          /\ fs = RoundTripFS(tree)
          /\ arg = <<"/", "s", "/">> \o tree.root
    /\ fs0 = fs
    /\ op = "RoundTrip"
    /\ pc = "rt_archive"
    /\ archive = <<>>
    /\ destDir = DestStr
    /\ err = ""
    /\ \E pw \in Passwords : heap = ("password" :> pw)
    /\ live = {}
    /\ defers = <<>>
    /\ salt = <<>>
    /\ nonce = <<>>
    /\ ciphertext = <<>>
    /\ outputPath = <<>>
    /\ part = 0
    /\ pos = 0
    /\ touched = {}
    /\ nread = 0
    /\ typed = <<>>
    /\ prov = <<>>

\* ArchiveDirectory(testDir).
RTArchive ==
    /\ pc = "rt_archive"
    /\ LET r == ArchiveDirectory(fs, arg)
       IN  IF r.err
           THEN /\ err' = "Archive failed"
                /\ pc' = "done"
                /\ archive' = archive
           ELSE /\ err' = err
                /\ pc' = "rt_seal"
                /\ archive' = r.data
    /\ UNCHANGED <<fs, op, arg, extraction, secrets, sealing, history>>

\* A random salt and nonce, DeriveKey, EncryptData, key.Wipe and the zeroing
\* of the archive.
RTSeal ==
    /\ pc = "rt_seal"
    /\ \E s \in GenerateRandomBytes(SaltSize), n \in GenerateRandomBytes(NonceSize) :
          LET key == DeriveKey(heap["password"], s)
              r   == EncryptData(archive, key, n)
              w   == Wipe(("key" :> key) @@ heap, live \cup {"key"}, "key")
          IN  /\ salt' = s
              /\ nonce' = n
              /\ ciphertext' = r.ciphertext
              /\ heap' = w.heap
              /\ live' = w.live
              /\ IF r.err # ""
                 THEN /\ err' = "Encrypt failed"
                      /\ pc' = "done"
                      /\ archive' = archive
                 ELSE /\ err' = err
                      /\ pc' = "rt_open"
                      /\ archive' = Zeroed(archive)
    /\ UNCHANGED <<fs, op, arg, extraction, defers, outputPath, part, history>>

\* DeriveKey again, DecryptData, key2.Wipe, then ExtractArchive into the
\* empty directory.
RTOpen ==
    /\ pc = "rt_open"
    /\ LET key2 == DeriveKey(heap["password"], salt)
           r    == DecryptData(ciphertext, key2, nonce)
           w    == Wipe(("key2" :> key2) @@ heap, live \cup {"key2"}, "key2")
       IN  /\ heap' = w.heap
           /\ live' = w.live
           /\ archive' = r.plaintext
           /\ IF r.err # ""
              THEN /\ err' = "Decrypt failed"
                   /\ pc' = "done"
              ELSE /\ err' = err
                   /\ pc' = "extract_open"
    /\ UNCHANGED <<fs, op, arg, extraction, defers, sealing, history>>

NextRoundTrip ==
    RTArchive \/ RTSeal \/ RTOpen \/ ExtractOpen \/ ExtractLoop \/ ExtractEOF
        \/ ExtractReturn

SpecRoundTrip == InitRoundTrip /\ [][NextRoundTrip]_vars

\* --------------------------------------------------------------- Encrypt

Idle == pc \in {"idle", "done"}

WorkDir == Cwd

\* The arguments the command line passes to Encrypt: directories, a file
\* and a missing path.
EncryptArgs ==
    { <<"r">>, <<".", ".", "c">>, <<"r", "/", "a">>, <<"b">> }

EncryptCall ==
    /\ Idle
    /\ \E path \in EncryptArgs : FreshCall("Encrypt", path)
    /\ pc' = "enc_stat"
    /\ UNCHANGED <<fs, prov>>

\* EncStat without the os.Stat of the output path.
EncStatNoOutputCheck ==
    /\ pc = "enc_stat"
    /\ outputPath' = OutputPath(arg)
    /\ IF Stat(fs, arg).st # "ok" THEN ReturnWith("cannot access folder")
       ELSE IF ~StatIsDir(fs, arg) THEN ReturnWith("path is not a directory")
       ELSE /\ pc' = "enc_password"
            /\ err' = err
    /\ UNCHANGED <<fs, op, arg, archive, extraction, secrets, salt, nonce, ciphertext,
                   part, history>>

\* os.Stat of the folder, filepath.Abs, and os.Stat of the output path.
EncStat ==
    /\ pc = "enc_stat"
    /\ outputPath' = OutputPath(arg)
    /\ IF Stat(fs, arg).st # "ok" THEN ReturnWith("cannot access folder")
       ELSE IF ~StatIsDir(fs, arg) THEN ReturnWith("path is not a directory")
       ELSE IF Stat(fs, OutputPath(arg)).st = "ok"
            THEN ReturnWith("output file already exists")
       ELSE /\ pc' = "enc_password"
            /\ err' = err
    /\ UNCHANGED <<fs, op, arg, archive, extraction, secrets, salt, nonce, ciphertext,
                   part, history>>

\* ReadPasswordSecure into the SecureBytes called name, and the defer of
\* its Wipe.
ReadInto(name, in, nextpc) ==
    /\ typed' = Append(typed, in)
    /\ IF ReadPasswordSecure(in).err # ""
       THEN /\ ReturnWith(ReadPasswordSecure(in).err)
            /\ UNCHANGED secrets
       ELSE /\ heap' = (name :> ReadPasswordSecure(in).data) @@ heap
            /\ live' = live \cup {name}
            /\ defers' = Append(defers, name)
            /\ pc' = nextpc
            /\ err' = err

EncPassword ==
    /\ pc = "enc_password"
    /\ \E in \in TerminalInputs : ReadInto("password", in, "enc_confirm")
    /\ UNCHANGED <<fs, op, arg, archive, extraction, sealing, fs0, prov>>

EncConfirm ==
    /\ pc = "enc_confirm"
    /\ \E in \in TerminalInputs : ReadInto("confirmPassword", in, "enc_compare")
    /\ UNCHANGED <<fs, op, arg, archive, extraction, sealing, fs0, prov>>

EncCompare ==
    /\ pc = "enc_compare"
    /\ IF ConstantTimeCompare(heap["password"], heap["confirmPassword"]) # 1
       THEN ReturnWith("passwords do not match")
       ELSE /\ pc' = "enc_archive"
            /\ err' = err
    /\ UNCHANGED <<fs, op, arg, archive, extraction, secrets, sealing, history>>

\* ArchiveDirectory(folderPath); readable says whether every file of the
\* tree can be opened.
EncArchive ==
    /\ pc = "enc_archive"
    /\ \E readable \in BOOLEAN :
          IF ~readable \/ ArchiveDirectory(fs, arg).err
          THEN /\ ReturnWith("failed to archive directory")
               /\ archive' = archive
          ELSE /\ archive' = ArchiveDirectory(fs, arg).data
               /\ pc' = "enc_salt"
               /\ err' = err
    /\ UNCHANGED <<fs, op, arg, extraction, secrets, sealing, history>>

\* GenerateRandomBytes(SaltSize).
EncSalt ==
    /\ pc = "enc_salt"
    /\ salt' \in GenerateRandomBytes(SaltSize)
    /\ pc' = "enc_nonce"
    /\ UNCHANGED <<fs, op, err, arg, archive, extraction, secrets, nonce, ciphertext,
                   outputPath, part, history>>

\* GenerateRandomBytes(NonceSize).
EncNonce ==
    /\ pc = "enc_nonce"
    /\ nonce' \in GenerateRandomBytes(NonceSize)
    /\ pc' = "enc_seal"
    /\ UNCHANGED <<fs, op, err, arg, archive, extraction, secrets, salt, ciphertext,
                   outputPath, part, history>>

\* DeriveKey and the defer of key.Wipe, EncryptData, and the zeroing of the
\* archive.
EncSeal ==
    /\ pc = "enc_seal"
    /\ LET key == DeriveKey(heap["password"], salt)
           r   == EncryptData(archive, key, nonce)
       IN  /\ heap' = ("key" :> key) @@ heap
           /\ live' = live \cup {"key"}
           /\ defers' = Append(defers, "key")
           /\ ciphertext' = r.ciphertext
           /\ IF r.err # ""
              THEN /\ ReturnWith(r.err)
                   /\ archive' = archive
              ELSE /\ archive' = Zeroed(archive)
                   /\ pc' = "enc_create"
                   /\ err' = err
    /\ UNCHANGED <<fs, op, arg, extraction, salt, nonce, outputPath, part, history>>

\* os.Create(outputPath); it may fail.
EncCreate ==
    /\ pc = "enc_create"
    /\ \E ok \in BOOLEAN :
          IF ~ok \/ WriteFile(fs, outputPath, <<>>).err
          THEN /\ ReturnWith("failed to create output file")
               /\ UNCHANGED <<fs, part>>
          ELSE /\ fs' = WriteFile(fs, outputPath, <<>>).fs
               /\ part' = 1
               /\ pc' = "enc_write"
               /\ err' = err
    /\ UNCHANGED <<op, arg, archive, extraction, secrets, salt, nonce, ciphertext,
                   outputPath, history>>

\* The byte counts a Write of len bytes may report: all of them, or fewer
\* together with an error.
WriteCounts(len) == {0, len - 1, len}

\* outFile.Write of the next part of the container.
EncWrite ==
    /\ pc = "enc_write"
    /\ LET bytes == ContainerParts(salt, nonce, ciphertext)[part]
           out   == Canon(fs, outputPath)
       IN  \E n \in WriteCounts(Len(bytes)) :
              /\ fs' = [fs EXCEPT ![out].bytes = @ \o SubSeq(bytes, 1, n)]
              /\ IF n < Len(bytes)
                 THEN /\ ReturnWith("write failed")
                      /\ part' = part
                 ELSE IF part = Len(ContainerParts(salt, nonce, ciphertext))
                 THEN /\ ReturnWith("")
                      /\ part' = part + 1
                 ELSE /\ part' = part + 1
                      /\ pc' = pc
                      /\ err' = err
    /\ UNCHANGED <<op, arg, archive, extraction, secrets, salt, nonce, ciphertext,
                   outputPath, history>>

\* --------------------------------------------------------------- Decrypt

DecryptArgs ==
    { <<"r">> \o CloakSuffix, <<".", ".", "c">> \o CloakSuffix, <<"r">>, <<"b">>,
      <<"r", "/", "a">> }

DecryptCall ==
    /\ Idle
    /\ \E path \in DecryptArgs : FreshCall("Decrypt", path)
    /\ pc' = "dec_read"
    /\ UNCHANGED <<fs, prov>>

\* os.Stat, os.ReadFile and the checks of the container.
DecRead ==
    /\ pc = "dec_read"
    /\ LET c == ParseContainer(fs[Canon(fs, arg)].bytes)
       IN  IF Stat(fs, arg).st # "ok"
           THEN /\ ReturnWith("cannot access file")
                /\ UNCHANGED <<salt, nonce, ciphertext>>
           ELSE IF StatIsDir(fs, arg)
           THEN /\ ReturnWith("path is a directory, expected encrypted file")
                /\ UNCHANGED <<salt, nonce, ciphertext>>
           ELSE IF c.err # ""
           THEN /\ ReturnWith(c.err)
                /\ UNCHANGED <<salt, nonce, ciphertext>>
           ELSE /\ salt' = c.salt
                /\ nonce' = c.nonce
                /\ ciphertext' = c.ciphertext
                /\ pc' = "dec_password"
                /\ err' = err
    /\ UNCHANGED <<fs, op, arg, archive, extraction, secrets, outputPath, part, history>>

DecPassword ==
    /\ pc = "dec_password"
    /\ \E in \in TerminalInputs : ReadInto("password", in, "dec_open")
    /\ UNCHANGED <<fs, op, arg, archive, extraction, sealing, fs0, prov>>

\* DeriveKey and the defer of key.Wipe, DecryptData, and the output
\* directory.
DecOpen ==
    /\ pc = "dec_open"
    /\ LET key == DeriveKey(heap["password"], salt)
           r   == DecryptData(ciphertext, key, nonce)
       IN  /\ heap' = ("key" :> key) @@ heap
           /\ live' = live \cup {"key"}
           /\ defers' = Append(defers, "key")
           /\ archive' = r.plaintext
           /\ IF r.err # ""
              THEN /\ ReturnWith(r.err)
                   /\ destDir' = destDir
              ELSE /\ destDir' = Dir(Abs(arg))
                   /\ pc' = "extract_open"
                   /\ err' = err
    /\ UNCHANGED <<fs, op, arg, pos, touched, nread, sealing, history>>

\* ExtractArchive has returned to Decrypt: an error is returned at once,
\* otherwise the archive is zeroed.
DecExtracted ==
    /\ pc = "extract_ret"
    /\ op = "Decrypt"
    /\ IF err # ""
       THEN /\ ReturnWith(err)
            /\ archive' = archive
       ELSE /\ ReturnWith("")
            /\ archive' = Zeroed(archive)
    /\ UNCHANGED <<fs, op, arg, extraction, secrets, sealing, history>>

\* Encrypt or Decrypt returns: the deferred Wipe calls run.
Return ==
    /\ pc = "ret"
    /\ heap' = RunDefers(heap, live, defers).heap
    /\ live' = RunDefers(heap, live, defers).live
    /\ defers' = <<>>
    /\ pc' = "done"
    /\ prov' = IF op = "Encrypt" /\ part >= 1
               THEN (Canon(fs, outputPath) :>
                        [kind |-> IF err = "" THEN "sealed" ELSE "leftover",
                         pw |-> typed[1].line]) @@ prov
               ELSE prov
    /\ UNCHANGED <<fs, op, err, arg, archive, extraction, sealing, fs0, typed>>

\* ------------------------------------------------- damage to a container

\* The bits of a byte that damage inverts: the lowest and the highest.
FlipBits == {0, 7}

\* Bit b of byte x inverted.
FlipBit(x, b) == IF (x \div (2 ^ b)) % 2 = 1 THEN x - 2 ^ b ELSE x + 2 ^ b

\* A container written by Encrypt is damaged while no call runs: one bit of
\* one byte is inverted, the file is cut, or a byte is added.  What the last
\* call returned no longer describes the filesystem, so pc leaves "done".
Damage ==
    /\ Idle
    /\ \E p \in DOMAIN prov :
          /\ prov[p].kind = "sealed"
          /\ LET old == fs[p].bytes
             IN  \/ \E i \in 1..Len(old), b \in FlipBits :
                       /\ fs' = [fs EXCEPT ![p].bytes[i] = FlipBit(@, b)]
                       /\ prov' = [prov EXCEPT ![p].kind =
                                      IF i > HeaderSize THEN "ctflip" ELSE "hdrflip"]
                 \/ \E n \in {0, HeaderSize - 1, HeaderSize, Len(old) - 1} :
                       /\ fs' = [fs EXCEPT ![p].bytes = SubSeq(old, 1, n)]
                       /\ prov' = [prov EXCEPT ![p].kind = "cut"]
                 \/ /\ fs' = [fs EXCEPT ![p].bytes = Append(old, 0)]
                    /\ prov' = [prov EXCEPT ![p].kind = "grown"]
    /\ pc' = "idle"
    /\ UNCHANGED <<op, err, arg, archive, extraction, secrets, sealing, fs0, typed>>

\* ------------------------------------------------------------ the program

MainTrees == {TreeSmall, TreeDots}

MainFS(tree) == (Root :> DirNode) @@ (WorkDir :> DirNode) @@ Mount(tree, WorkDir)

Init ==
    /\ \E tree \in MainTrees : fs = MainFS(tree)
    /\ fs0 = fs
    /\ op = "none"
    /\ pc = "idle"
    /\ arg = <<>>
    /\ archive = <<>>
    /\ destDir = <<>>
    /\ NoCall

Next ==
    \/ EncryptCall \/ EncStat \/ EncPassword \/ EncConfirm \/ EncCompare
    \/ EncArchive \/ EncSalt \/ EncNonce \/ EncSeal \/ EncCreate \/ EncWrite
    \/ DecryptCall \/ DecRead \/ DecPassword \/ DecOpen
    \/ ExtractOpen \/ ExtractLoop \/ ExtractEOF \/ DecExtracted
    \/ Return \/ Damage

Spec == Init /\ [][Next]_vars

\* -------------------------- ArchiveDirectory, then ExtractArchive elsewhere

\* The ways a caller may name a directory of the working directory: by its
\* name, with a trailing separator, by its absolute path, below ".", and the
\* working directory and its parent themselves.
PathForms(root) ==
    { root, root \o <<Sep>>, <<Sep>> \o JoinSegs(WorkDir) \o <<Sep>> \o root,
      <<".", Sep>> \o root, DotStr, DotDotStr }

ArchiveFS(tree) ==
    (Root :> DirNode) @@ (WorkDir :> DirNode) @@ (DestPath :> DirNode)
        @@ Mount(tree, WorkDir)

InitArchive ==
    /\ \E tree \in RoundTripTrees :
          /\ fs = ArchiveFS(tree)
          /\ arg \in PathForms(tree.root)
    /\ fs0 = fs
    /\ op = "ArchiveAndExtract"
    /\ pc = "archive_walk"
    /\ archive = <<>>
    /\ destDir = DestStr
    /\ NoCall

\* ArchiveDirectory(testDir); its blob goes to ExtractArchive.
ArchiveWalk ==
    /\ pc = "archive_walk"
    /\ LET r == ArchiveDirectory(fs, arg)
       IN  IF r.err
           THEN /\ err' = "Failed to archive directory"
                /\ pc' = "done"
                /\ archive' = archive
           ELSE /\ err' = err
                /\ pc' = "extract_open"
                /\ archive' = r.data
    /\ UNCHANGED <<fs, op, arg, extraction, secrets, sealing, history>>

NextArchive == ArchiveWalk \/ ExtractOpen \/ ExtractLoop \/ ExtractEOF \/ ExtractReturn

SpecArchive == InitArchive /\ [][NextArchive]_vars

\* --------------------------------- SecureBytes objects and key derivation

\* Most Wipe calls counted per object.
MaxWipes == 2

KeyNames == {"key1", "key2", "key3"}

\* The contents a caller wraps in a SecureBytes: sensitive bytes, or nothing.
WrappedData == {<<5, 6, 7>>, <<>>}

InitSecure ==
    /\ fs = (Root :> DirNode)
    /\ fs0 = fs
    /\ op = "none"
    /\ pc = "idle"
    /\ arg = <<>>
    /\ archive = <<>>
    /\ destDir = <<>>
    /\ NoCall

\* key := DeriveKey(password, salt); prov keeps the inputs of the call and
\* the bytes it returned.
DeriveKeyCall ==
    /\ \E name \in KeyNames \ DOMAIN prov, password \in Passwords,
          s \in GenerateRandomBytes(SaltSize) :
          /\ heap' = (name :> DeriveKey(password, s)) @@ heap
          /\ live' = live \cup {name}
          /\ prov' = (name :> [kind |-> "key", pw |-> password, salt |-> s,
                               data |-> DeriveKey(password, s), wipes |-> 0]) @@ prov
          /\ arg' = name
    /\ op' = "DeriveKey"
    /\ UNCHANGED <<fs, pc, err, archive, extraction, defers, sealing, fs0, typed>>

\* sb := &SecureBytes{Data: data}; without data the object's Data is nil.
NewSecureBytes ==
    /\ "sb" \notin DOMAIN prov
    /\ \E data \in WrappedData :
          /\ heap' = ("sb" :> data) @@ heap
          /\ live' = IF data = <<>> THEN live ELSE live \cup {"sb"}
          /\ prov' = ("sb" :> [kind |-> "wrapped", pw |-> <<>>, salt |-> <<>>,
                               data |-> data, wipes |-> 0]) @@ prov
    /\ arg' = "sb"
    /\ op' = "SecureBytes"
    /\ UNCHANGED <<fs, pc, err, archive, extraction, defers, sealing, fs0, typed>>

\* name.Wipe() on an object that exists.
WipeCall ==
    /\ \E name \in DOMAIN prov :
          /\ heap' = Wipe(heap, live, name).heap
          /\ live' = Wipe(heap, live, name).live
          /\ prov' = [prov EXCEPT ![name].wipes =
                         IF @ < MaxWipes THEN @ + 1 ELSE @]
          /\ arg' = name
    /\ op' = "Wipe"
    /\ UNCHANGED <<fs, pc, err, archive, extraction, defers, sealing, fs0, typed>>

NextSecure == DeriveKeyCall \/ NewSecureBytes \/ WipeCall

SpecSecure == InitSecure /\ [][NextSecure]_vars

\* ------------------------------ ExtractArchive on entries in another order

\* The orders of n entries.
Orders(n) == {q \in [1..n -> 1..n] : \A i, j \in 1..n : q[i] = q[j] => i = j}

\* The blobs that hold the entries ArchiveDirectory writes for dirPath, in
\* every order.
PermutedBlobs(f, dirPath) ==
    LET vs == Walk(f, dirPath)
        hs == [i \in 1..Len(vs) |-> WalkHeader(dirPath, vs[i])]
    IN  {GzipWrite(TarStream([i \in 1..Len(hs) |-> hs[q[i]]])) : q \in Orders(Len(hs))}

InitPermuted ==
    /\ \E tree \in RoundTripTrees :
          /\ fs = RoundTripFS(tree)
          /\ arg = <<"/", "s", "/">> \o tree.root
          /\ archive \in PermutedBlobs(RoundTripFS(tree), <<"/", "s", "/">> \o tree.root)
    /\ fs0 = fs
    /\ op = "ExtractPermuted"
    /\ pc = "extract_open"
    /\ destDir = DestStr
    /\ NoCall

SpecPermuted == InitPermuted /\ [][NextExtract]_vars

\* ------------------- Encrypt and Decrypt beside a file named like the output

\* A directory r that holds a file called r.cloak.
TreeInner ==
    [root |-> <<"r">>,
     nodes |-> (<<>> :> DirNode) @@ (<< <<"r">> \o CloakSuffix >> :> FileNode(<<8>>))]

\* The command line names the directory with or without a trailing separator.
EncryptDirCall ==
    /\ Idle
    /\ \E path \in {<<"r">>, <<"r", Sep>>} : FreshCall("Encrypt", path)
    /\ pc' = "enc_stat"
    /\ UNCHANGED <<fs, prov>>

InitInPlace ==
    /\ fs = MainFS(TreeInner)
    /\ fs0 = fs
    /\ op = "none"
    /\ pc = "idle"
    /\ arg = <<>>
    /\ archive = <<>>
    /\ destDir = <<>>
    /\ NoCall

NextInPlace ==
    \/ EncryptDirCall \/ EncStat \/ EncPassword \/ EncConfirm \/ EncCompare
    \/ EncArchive \/ EncSalt \/ EncNonce \/ EncSeal \/ EncCreate \/ EncWrite
    \/ DecryptCall \/ DecRead \/ DecPassword \/ DecOpen
    \/ ExtractOpen \/ ExtractLoop \/ ExtractEOF \/ DecExtracted
    \/ Return

SpecInPlace == InitInPlace /\ [][NextInPlace]_vars

\* ------------------------------------------------------------ properties

\* C1: the test cycle (ArchiveDirectory, EncryptData, DecryptData with the
\* same key and nonce, ExtractArchive into an empty directory) succeeds and
\* leaves under the destination the tree it archived: the same names, the
\* same file contents, the same link targets.
RoundTripReproduces ==
    (pc = "done" /\ op = "RoundTrip") =>
        /\ err = ""
        /\ SubTree(fs, Append(DestPath, Base(arg)))
               = SubTree(fs0, Append(SourceDir, Base(arg)))

\* C3: every filesystem object ExtractArchive creates, truncates, writes or
\* removes lies inside the destination directory.
ExtractionConfined == \A p \in touched : IsUnder(DestPath, p)

\* The entry the tar reader of ExtractArchive delivers next.
NextEntry == TarNext(archive, pos)

\* The cleaned name of the next entry is absolute or begins with the parent
\* directory.
NextEntryEscapes ==
    /\ pc = "extract_loop"
    /\ ~NextEntry.eof
    /\ ~NextEntry.err
    /\ LET cleanName == Clean(NextEntry.header.name)
       IN  \/ cleanName[1] = Sep
           \/ Elems(cleanName)[1] = DotDotStr

\* C4: an entry whose cleaned name is absolute or begins with the parent
\* directory ends ExtractArchive with the error "invalid path in archive"
\* before anything is written for it; what earlier entries wrote stays, and
\* once ExtractArchive has stopped no further entry is taken up and nothing
\* more is written.
TraversalRejected ==
    [][ /\ NextEntryEscapes =>
            /\ err' = "invalid path in archive"
            /\ pc' = "extract_ret"
            /\ fs' = fs
            /\ touched' = touched
        /\ (pc \in {"extract_ret", "done"} /\ op = "ExtractArchive") =>
            /\ fs' = fs
            /\ touched' = touched
            /\ nread' = nread
            /\ pos' = pos
            /\ err' = err ]_vars

\* ExtractArchive has stopped at an escaping entry after it extracted others.
TraversalRejectedWitness ==
    /\ op = "ExtractArchive"
    /\ pc = "done"
    /\ err = "invalid path in archive"
    /\ touched # {}
    /\ fs # fs0
    /\ IsAbs(Clean(TarNext(archive, pos).header.name))

\* The container file the running Decrypt was given, as it was when the call
\* started, and how it came to its content.
GivenFile == fs0[Canon(fs0, arg)].bytes

GivenKind == ProvOf(fs0, arg).kind

AuthenticationError == "decryption failed: invalid password or corrupted file"

FormatErrors ==
    { "invalid file: too small to be a valid encrypted file",
      "invalid file: not a valid .cloak file",
      "invalid file: size mismatch, file may be corrupted" }

\* Decrypt has read a password from the terminal.
PasswordRead == Len(typed) = 1 /\ ReadPasswordSecure(typed[1]).err = ""

\* Decrypt runs on an intact container with another password than the one
\* it was encrypted with, or on a container with one ciphertext bit inverted.
WrongPasswordOrFlippedBit ==
    /\ op = "Decrypt"
    /\ pc \notin {"idle", "dec_read", "dec_password", "dec_open"}
    /\ PasswordRead
    /\ \/ GivenKind = "sealed" /\ typed[1].line # ProvOf(fs0, arg).pw
       \/ GivenKind = "ctflip"

\* C2: with a wrong password, or with one bit of the ciphertext inverted,
\* DecryptData returns the one generic error and no plaintext, and Decrypt
\* returns that error without starting ExtractArchive and without a change
\* to the filesystem.
FailClosed ==
    WrongPasswordOrFlippedBit =>
        /\ pc \in {"ret", "done"}
        /\ err = AuthenticationError
        /\ archive = <<>>
        /\ pos = 0
        /\ nread = 0
        /\ touched = {}
        /\ fs = fs0

\* Decrypt has returned the generic error for a container with an inverted
\* ciphertext bit although the password was the right one.
FailClosedWitness ==
    /\ op = "Decrypt"
    /\ pc = "done"
    /\ PasswordRead
    /\ GivenKind = "ctflip"
    /\ typed[1].line = ProvOf(fs0, arg).pw
    /\ err = AuthenticationError

\* The file Decrypt reads next is a regular file.
ReadsFile == pc = "dec_read" /\ Stat(fs, arg).st = "ok" /\ ~StatIsDir(fs, arg)

\* It has the length of the header at least, begins with the magic bytes,
\* and its length field holds the number of bytes after the header.
ReadsWellFormed ==
    LET data == fs[Canon(fs, arg)].bytes
    IN  /\ Len(data) >= 7 + 32 + 12 + 8
        /\ SubSeq(data, 1, 7) = <<67, 76, 79, 65, 75, 48, 49>>
        /\ \A i \in 52..56 : data[i] = 0
        /\ data[57] * 65536 + data[58] * 256 + data[59] = Len(data) - 59

\* C5: Decrypt returns a format error for every file that is shorter than the
\* 59 bytes of the header, does not begin with CLOAK01, or whose big-endian
\* length field differs from the number of bytes after the header; every
\* other file it takes on to the password prompt and the key derivation.
FormatRejection ==
    [][ ReadsFile =>
          IF ReadsWellFormed
          THEN pc' = "dec_password" /\ err' = ""
          ELSE pc' = "ret" /\ err' \in FormatErrors /\ typed' = <<>> ]_vars

\* Decrypt has rejected a container that grew by one byte.
FormatRejectionWitness ==
    /\ op = "Decrypt"
    /\ pc = "done"
    /\ GivenKind = "grown"
    /\ err = "invalid file: size mismatch, file may be corrupted"
    /\ typed = <<>>

\* C6: when Encrypt or Decrypt has returned, on whatever path, the buffers
\* that held the password, the confirmation and the derived key hold zeros
\* only, and no SecureBytes refers to them any more.
SecretsWiped ==
    (Idle /\ op \in {"Encrypt", "Decrypt"}) =>
        /\ live = {}
        /\ \A b \in DOMAIN heap : AllZero(heap[b])

\* Encrypt has returned with success after it held all three secrets.
SecretsWipedWitness ==
    /\ pc = "done"
    /\ op = "Encrypt"
    /\ err = ""
    /\ DOMAIN heap = {"password", "confirmPassword", "key"}
    /\ \A b \in DOMAIN heap : Len(heap[b]) > 0

\* C7: when Encrypt or Decrypt has returned, on whatever path, every byte of
\* the plaintext archive is zero.
ArchiveZeroed == (Idle /\ op \in {"Encrypt", "Decrypt"}) => AllZero(archive)

\* The password and its confirmation were both read and differ.
PasswordsDiffer ==
    /\ Len(typed) = 2
    /\ ReadPasswordSecure(typed[1]).err = ""
    /\ ReadPasswordSecure(typed[2]).err = ""
    /\ typed[1].line # typed[2].line

\* Encrypt was called on something that is no directory, or while the
\* output file exists, or the confirmation differs from the password.
MustReject ==
    /\ op = "Encrypt"
    /\ pc # "idle"
    /\ \/ ~StatIsDir(fs0, arg)
       \/ Stat(fs0, OutputPath(arg)).st = "ok"
       \/ PasswordsDiffer

\* C8: Encrypt on a path that is not an existing directory, or with the
\* output file present, or with a confirmation that differs, returns an
\* error and at no point changes the filesystem.
EncryptRejects ==
    MustReject =>
        /\ fs = fs0
        /\ pc \in {"enc_stat", "enc_password", "enc_confirm", "enc_compare", "ret", "done"}
        /\ pc = "done" => err # ""

\* Encrypt has refused to write over the container of an earlier call.
EncryptRejectsWitness ==
    /\ op = "Encrypt"
    /\ pc = "done"
    /\ err = "output file already exists"
    /\ ProvOf(fs0, OutputPath(arg)).kind # "none"
    /\ fs = fs0

\* C9: the file a failed Encrypt leaves behind is never taken for a
\* container: Decrypt on it returns a format or authentication error, starts
\* no extraction and changes nothing.
LeftoverUnusable ==
    (op = "Decrypt" /\ pc # "idle" /\ GivenKind = "leftover") =>
        /\ pc \in {"dec_read", "dec_password", "dec_open", "ret", "done"}
        /\ pc \in {"ret", "done"} => err \in FormatErrors \cup {AuthenticationError}
        /\ nread = 0
        /\ touched = {}
        /\ fs = fs0

\* Decrypt has rejected what an Encrypt left that failed in its last write.
LeftoverUnusableWitness ==
    /\ op = "Decrypt"
    /\ pc = "done"
    /\ GivenKind = "leftover"
    /\ Len(GivenFile) >= HeaderSize
    /\ err = "invalid file: size mismatch, file may be corrupted"

\* The file at the output path of the Encrypt that has returned.
Written == fs[Canon(fs, outputPath)].bytes

\* C10: a successful Encrypt leaves a file made of CLOAK01, the 32 bytes of
\* the salt, the 12 bytes of the nonce, the ciphertext length as 8 bytes
\* big-endian, and the ciphertext, and nothing else; the header parse of
\* Decrypt gives back the salt, nonce and ciphertext, which are the ones the
\* key derivation and the encryption used.
ContainerLayout ==
    (op = "Encrypt" /\ pc = "done" /\ err = "") =>
        /\ Len(salt) = 32
        /\ Len(nonce) = 12
        /\ Len(Written) = 7 + 32 + 12 + 8 + Len(ciphertext)
        /\ SubSeq(Written, 1, 7) = <<67, 76, 79, 65, 75, 48, 49>>
        /\ SubSeq(Written, 8, 39) = salt
        /\ SubSeq(Written, 40, 51) = nonce
        /\ \A i \in 52..56 : Written[i] = 0
        /\ Written[57] * 65536 + Written[58] * 256 + Written[59] = Len(ciphertext)
        /\ SubSeq(Written, 60, Len(Written)) = ciphertext
        /\ ParseContainer(Written) =
               [err |-> "", salt |-> salt, nonce |-> nonce, ciphertext |-> ciphertext]
        /\ ciphertext =
               EncryptData(ArchiveDirectory(fs0, arg).data,
                           DeriveKey(typed[1].line, salt), nonce).ciphertext

\* Encrypt has returned with success and the container is on disk.
ContainerLayoutWitness ==
    /\ op = "Encrypt"
    /\ pc = "done"
    /\ err = ""
    /\ Stat(fs, outputPath).st = "ok"
    /\ Stat(fs0, outputPath).st # "ok"
    /\ Len(ciphertext) > 1

\* The headers of the entries of a tar stream, from offset p on.
RECURSIVE BlobEntries(_, _)
BlobEntries(data, p) ==
    IF TarNext(data, p).eof \/ TarNext(data, p).err THEN <<>>
    ELSE <<TarNext(data, p).header>> \o BlobEntries(data, TarNext(data, p).next)

\* The name of the directory a path names.
RootName(path) == Base(Abs(path))

\* C11: however the directory is named to ArchiveDirectory, every entry of
\* the blob has the directory's own name as its first path segment, and an
\* extraction that succeeds leaves the tree under <destination>/<name>.
EntriesUnderRootName ==
    (op = "ArchiveAndExtract" /\ archive # <<>>) =>
        /\ \A i \in 1..Len(BlobEntries(archive, Len(GzipMagic) + 1)) :
              Split(BlobEntries(archive, Len(GzipMagic) + 1)[i].name)[1] = RootName(arg)
        /\ (pc = "done" /\ err = "") =>
              SubTree(fs, Append(DestPath, RootName(arg)))
                  = SubTree(fs0, Canon(fs0, arg))

WipeZeroesOnce ==
    [][ op' = "Wipe" =>
          /\ err' = ""
          /\ arg' \notin live'
          /\ Len(heap'[arg']) = Len(heap[arg'])
          /\ \A i \in 1..Len(heap'[arg']) : heap'[arg'][i] = 0
          /\ arg' \notin live => heap' = heap /\ live' = live
          /\ \A n \in DOMAIN heap \ {arg'} :
                heap'[n] = heap[n] /\ (n \in live' <=> n \in live) ]_vars

\* An object that held data was wiped twice.
WipeZeroesOnceWitness ==
    /\ op = "Wipe"
    /\ arg = "sb"
    /\ prov["sb"].wipes = 2
    /\ prov["sb"].data = <<5, 6, 7>>
    /\ heap["sb"] = <<0, 0, 0>>
    /\ "sb" \notin live

\* C14: in whatever order the entries ArchiveDirectory wrote reach
\* ExtractArchive, the extraction into an empty destination succeeds, no
\* file or link is ever without its parent directory, and the destination
\* ends up with the tree that was archived.
PermutedExtractionReproduces ==
    op = "ExtractPermuted" =>
        /\ \A q \in DOMAIN fs \ {Root} :
              Parent(q) \in DOMAIN fs /\ fs[Parent(q)].kind = "dir"
        /\ pc = "done" =>
              /\ err = ""
              /\ SubTree(fs, Append(DestPath, Base(arg)))
                     = SubTree(fs0, Append(SourceDir, Base(arg)))

\* C15: ExtractArchive rejects an entry with "invalid path in archive" if
\* and only if the entry's cleaned name is absolute or has the parent
\* directory as its first segment; every other entry is taken to the switch
\* on its type.
PathCheckExact ==
    [][ (pc = "extract_loop" /\ ~NextEntry.eof /\ ~NextEntry.err) =>
            (err' = "invalid path in archive" <=> NextEntryEscapes) ]_vars

\* C16: whatever Decrypt does with a file it was given, at every point of
\* the call and after it that file is at its path with the bytes it had when
\* the call started.
ContainerUntouched ==
    (op = "Decrypt" /\ pc # "idle" /\ Stat(fs0, arg).st = "ok" /\ ~StatIsDir(fs0, arg)) =>
        /\ Stat(fs, arg).st = "ok"
        /\ Canon(fs, arg) = Canon(fs0, arg)
        /\ fs[Canon(fs, arg)] = fs0[Canon(fs0, arg)]

====
